---- MODULE Spec2Model ----
(***************************************************************************)
(* KMLpro (src/app.py): conversion between KML documents and route tables. *)
(*                                                                         *)
(* Representation.                                                         *)
(*  - A Python str is a sequence of one-character strings.                 *)
(*  - A KML document is the element tree xml.etree.ElementTree builds from *)
(*    it: [tag, text, children].  ElementTree gives an element without     *)
(*    character data the text None and never the text "", so text = <<>>   *)
(*    stands for None.  Tags carry their namespace prefix ("kml:name").    *)
(*  - A float is held in tenths (15 stands for 1.5): the model's stand-in  *)
(*    for the finite precision of a double.  Parsing rounds to a tenth,    *)
(*    formatting prints the shortest decimal, as float() and str() do.     *)
(*  - None / NaN in a table cell is <<>>, a present value v is <<v>>.      *)
(***************************************************************************)
EXTENDS Integers, Sequences, FiniteSets, TLC

VARIABLES
    kml_content,   \* the KML document at hand (parsed or not), or NoDoc
    df,            \* the table at hand, or NoTable
    coordinates,   \* what parse_kml_coordinates returned last
    routes,        \* what parse_kml_multi_routes returned last (dict, in insertion order)
    sheets,        \* the sheets kml_to_multi_excel wrote: <<sheet name, table>>
    st_error,      \* the messages reported through st.error, oldest first
    raised,        \* the exception the last operation let propagate, "" for none
    last,          \* the operation applied last
    written_from   \* the table kml_content was written from by csv_to_kml, or NoTable

vars == <<kml_content, df, coordinates, routes, sheets, st_error, raised, last,
          written_from>>

(***************************************************************************)
(* Bounds of the model                                                     *)
(***************************************************************************)
\* most tokens of a generated <coordinates> text
MaxTokens == 6

\* most elements under <Document> of a generated KML document
MaxItems == 2

\* most rows of a generated table
MaxRows == 2

(***************************************************************************)
(* Characters and strings                                                  *)
(***************************************************************************)
Digits == <<"0", "1", "2", "3", "4", "5", "6", "7", "8", "9">>

IsDigit(c) == \E i \in 1..10 : Digits[i] = c

DigitVal(c) == (CHOOSE i \in 1..10 : Digits[i] = c) - 1

\* \s of the regular expression, and what str.strip() removes
IsSpace(c) == c \in {" ", "\t", "\n", "\r"}

\* str.strip(): leading and trailing whitespace removed
RECURSIVE lstrip(_)
lstrip(s) ==
    IF s # <<>> /\ IsSpace(Head(s)) THEN lstrip(Tail(s)) ELSE s

RECURSIVE rstrip(_)
rstrip(s) ==
    IF s # <<>> /\ IsSpace(s[Len(s)]) THEN rstrip(SubSeq(s, 1, Len(s) - 1)) ELSE s

strip(s) == rstrip(lstrip(s))

\* the character class [\s,]
IsSep(c) == IsSpace(c) \/ c = ","

\* re.split(r'[\s,]+', s): the pieces between the maximal runs of separators;
\* a run at the start or at the end leaves an empty piece there, and the
\* empty string splits into one empty piece.
RECURSIVE re_split_from(_, _, _, _)
re_split_from(s, i, cur, acc) ==
    IF i > Len(s) THEN Append(acc, cur)
    ELSE IF IsSep(s[i])
         THEN IF i > 1 /\ IsSep(s[i - 1])
              THEN re_split_from(s, i + 1, cur, acc)
              ELSE re_split_from(s, i + 1, <<>>, Append(acc, cur))
         ELSE re_split_from(s, i + 1, Append(cur, s[i]), acc)

re_split(s) == re_split_from(s, 1, <<>>, <<>>)

(***************************************************************************)
(* Numbers                                                                 *)
(***************************************************************************)
Abs(x) == IF x < 0 THEN -x ELSE x

RECURSIVE Pow10(_)
Pow10(k) == IF k = 0 THEN 1 ELSE 10 * Pow10(k - 1)

\* n / d rounded to the nearest integer, a tie to the even one (n >= 0, d > 0)
RoundHalfEven(n, d) ==
    LET q == n \div d
        r == n % d
    IN  IF 2 * r > d THEN q + 1
        ELSE IF 2 * r < d THEN q
        ELSE IF q % 2 = 0 THEN q ELSE q + 1

\* Python's round(x) of a float x = n / d of either sign
round(n, d) == IF n < 0 THEN -RoundHalfEven(-n, d) ELSE RoundHalfEven(n, d)

Unsigned(tok) ==
    IF tok # <<>> /\ Head(tok) \in {"+", "-"} THEN Tail(tok) ELSE tok

\* Whether float(tok) succeeds, for tokens of signs, digits, points and other
\* characters: [sign] (digits [. [digits]] | . digits).  (Exponents, "inf",
\* "nan" and digit-group underscores need characters the model's numerals
\* do not use.)
IsFloat(tok) ==
    LET u == Unsigned(tok)
    IN  /\ \A i \in 1..Len(u) : IsDigit(u[i]) \/ u[i] = "."
        /\ Cardinality({i \in 1..Len(u) : u[i] = "."}) <= 1
        /\ \E i \in 1..Len(u) : IsDigit(u[i])

RECURSIVE DigitsValue(_)
DigitsValue(ds) ==
    IF ds = <<>> THEN 0
    ELSE 10 * DigitsValue(SubSeq(ds, 1, Len(ds) - 1)) + DigitVal(ds[Len(ds)])

\* float(tok), in tenths, for a token float() accepts
float(tok) ==
    LET u    == Unsigned(tok)
        ds   == SelectSeq(u, IsDigit)
        dot  == IF \E i \in 1..Len(u) : u[i] = "."
                THEN CHOOSE i \in 1..Len(u) : u[i] = "."
                ELSE Len(u) + 1
        frac == IF dot > Len(u) THEN 0 ELSE Len(u) - dot
        mag  == IF frac = 0 THEN 10 * DigitsValue(ds)
                ELSE RoundHalfEven(DigitsValue(ds), Pow10(frac - 1))
    IN  IF tok # <<>> /\ Head(tok) = "-" THEN -mag ELSE mag

RECURSIVE NatStr(_)
NatStr(n) ==
    IF n < 10 THEN <<Digits[n + 1]>>
    ELSE Append(NatStr(n \div 10), Digits[(n % 10) + 1])

\* str(int)
IntStr(n) == IF n < 0 THEN <<"-">> \o NatStr(-n) ELSE NatStr(n)

\* int(x) of a float x: truncation toward zero
int(v) == IF v < 0 THEN -((-v) \div 10) ELSE v \div 10

\* faulty variant: a format that drops the fraction
FloatStr_whole(v) == IntStr(int(v))

\* str(float): the shortest decimal that reads back as the same value
FloatStr(v) ==
    (IF v < 0 THEN <<"-">> ELSE <<>>)
        \o NatStr(Abs(v) \div 10) \o <<".">> \o <<Digits[(Abs(v) % 10) + 1]>>

(***************************************************************************)
(* Element trees (xml.etree.ElementTree)                                   *)
(***************************************************************************)
Elem(tag, text, children) == [tag |-> tag, text |-> text, children |-> children]

RECURSIVE Flatten(_)
Flatten(ss) == IF ss = <<>> THEN <<>> ELSE Head(ss) \o Flatten(Tail(ss))

\* the descendants of e in document order, e itself not among them
RECURSIVE Descendants(_)
Descendants(e) ==
    Flatten([i \in 1..Len(e.children) |->
                 <<e.children[i]>> \o Descendants(e.children[i])])

\* e.findall('.//' + tag)
findall(e, tag) == SelectSeq(Descendants(e), LAMBDA x : x.tag = tag)

\* first element of a sequence as an optional: <<>> is Python's None
First(s) == IF s = <<>> THEN <<>> ELSE <<Head(s)>>

\* e.find(tag): the first child with that tag, or None
find(e, tag) == First(SelectSeq(e.children, LAMBDA x : x.tag = tag))

\* e.find('.//' + tag): the first descendant with that tag, or None
find_descendant(e, tag) == First(findall(e, tag))

\* ET.fromstring(kml_content): the root, for a well-formed document
NoDoc == [absent |-> TRUE]

fromstring_raises(doc) == ~doc.wellformed

(***************************************************************************)
(* The coordinate loop shared by both parsers (app.py 53-59, 97-103)       *)
(***************************************************************************)
\* the stride of range(0, len(coord_parts)-2, 3)
TripleStep == 3

\* the exclusive stop of the range, as a count of usable start positions:
\* a 0-based i < len - 2 is a 1-based i <= len - 2
range_stop(coord_parts) == Len(coord_parts) - 2

\* faulty variant: the altitude token is parsed too
triple_ok_alt(coord_parts, i) ==
    IsFloat(coord_parts[i]) /\ IsFloat(coord_parts[i + 1]) /\ IsFloat(coord_parts[i + 2])

\* the try body succeeds: float() of the longitude and of the latitude token
triple_ok(coord_parts, i) ==
    IsFloat(coord_parts[i]) /\ IsFloat(coord_parts[i + 1])

\* coordinates.append((lat, lon))
triple_point(coord_parts, i) == <<float(coord_parts[i + 1]), float(coord_parts[i])>>

RECURSIVE parse_triples_from(_, _, _)
parse_triples_from(coord_parts, i, acc) ==
    IF i > range_stop(coord_parts) THEN acc
    ELSE IF triple_ok(coord_parts, i)
         THEN parse_triples_from(coord_parts, i + TripleStep,
                                 Append(acc, triple_point(coord_parts, i)))
         ELSE parse_triples_from(coord_parts, i + TripleStep, acc)

parse_triples(coord_parts) == parse_triples_from(coord_parts, 1, <<>>)

\* coord_elem.text.strip() raises AttributeError when text is None
text_strip_raises(elem) == elem.text = <<>>

\* the tokens of one <coordinates> element with text
coord_parts_of(elem) == re_split(strip(elem.text))

(***************************************************************************)
(* parse_kml_coordinates (app.py 33-64)                                    *)
(***************************************************************************)
\* The loop over the <coordinates> elements; an exception leaves the loop
\* and takes the points gathered so far with it.
RECURSIVE coordinates_loop(_, _)
coordinates_loop(elems, acc) ==
    IF elems = <<>> THEN [raised |-> "", value |-> acc]
    ELSE IF text_strip_raises(Head(elems))
         THEN [raised |-> "AttributeError", value |-> <<>>]
         ELSE coordinates_loop(Tail(elems),
                               acc \o parse_triples(coord_parts_of(Head(elems))))

parse_kml_coordinates(doc) ==
    IF fromstring_raises(doc) THEN [raised |-> "ParseError", value |-> <<>>]
    ELSE coordinates_loop(findall(doc.root, "kml:coordinates"), <<>>)

(***************************************************************************)
(* parse_kml_multi_routes (app.py 66-114)                                  *)
(***************************************************************************)
UnnamedRoute == <<"U","n","n","a","m","e","d"," ","R","o","u","t","e">>

\* the characters re.sub(r'[\\/*?:\[\]<>|]', '_', ...) replaces
InvalidChars == {"\\", "/", "*", "?", ":", "[", "]", "<", ">", "|"}

\* the length clean_name[:31] keeps
SheetNameLimit == 31

re_sub(route_name) ==
    [i \in 1..Len(route_name) |->
        IF route_name[i] \in InvalidChars THEN "_" ELSE route_name[i]]

\* faulty variant: clean_name[:32]
truncate_off_by_one(s) ==
    IF Len(s) > SheetNameLimit + 1 THEN SubSeq(s, 1, SheetNameLimit + 1) ELSE s

truncate(s) == IF Len(s) > SheetNameLimit THEN SubSeq(s, 1, SheetNameLimit) ELSE s

clean_name_of(route_name) == truncate(re_sub(route_name))

\* routes[key] = value on a dict kept in insertion order
RECURSIVE dict_set(_, _, _)
dict_set(d, key, value) ==
    IF d = <<>> THEN <<<<key, value>>>>
    ELSE IF Head(d)[1] = key THEN <<<<key, value>>>> \o Tail(d)
    ELSE <<Head(d)>> \o dict_set(Tail(d), key, value)

dict_keys(d) == {d[i][1] : i \in 1..Len(d)}

\* name_elem.text if name_elem is not None else "Unnamed Route";
\* a <name/> without character data gives None, here <<>>
route_name_of(placemark) ==
    LET name_elem == find(placemark, "kml:name")
    IN  IF name_elem # <<>> THEN name_elem[1].text ELSE UnnamedRoute

\* the <coordinates> child of the first LineString under the placemark,
\* or None
coord_elem_of(placemark) ==
    LET linestring == find_descendant(placemark, "kml:LineString")
    IN  IF linestring # <<>> THEN find(linestring[1], "kml:coordinates") ELSE <<>>

RECURSIVE routes_loop(_, _)
routes_loop(placemarks, acc) ==
    IF placemarks = <<>> THEN [raised |-> "", value |-> acc]
    ELSE LET placemark  == Head(placemarks)
             route_name == route_name_of(placemark)
             coord_elem == coord_elem_of(placemark)
         IN  IF coord_elem = <<>> THEN routes_loop(Tail(placemarks), acc)
             ELSE IF text_strip_raises(coord_elem[1])
                  THEN [raised |-> "AttributeError", value |-> <<>>]
                  ELSE LET pts == parse_triples(coord_parts_of(coord_elem[1]))
                       IN  IF pts = <<>> THEN routes_loop(Tail(placemarks), acc)
                           \* re.sub on None raises TypeError
                           ELSE IF route_name = <<>>
                                THEN [raised |-> "TypeError", value |-> <<>>]
                                ELSE routes_loop(Tail(placemarks),
                                         dict_set(acc, clean_name_of(route_name), pts))

parse_kml_multi_routes(doc) ==
    IF fromstring_raises(doc) THEN [raised |-> "ParseError", value |-> <<>>]
    ELSE routes_loop(findall(doc.root, "kml:Placemark"), <<>>)

\* st.error(...) in the parsers' except clause
report(errors, where, result) ==
    IF result.raised = "" THEN errors
    ELSE Append(errors, [where |-> where, exception |-> result.raised])

(***************************************************************************)
(* haversine_distance (app.py 10-31), in fixed point                       *)
(*                                                                         *)
(* Degrees come in tenths; radians and the values of sin, cos, sqrt and    *)
(* atan2 are held in units of 1/10000, a = sin^2 + cos cos sin^2 in units  *)
(* of 1/10^8.  The library functions are their series, cut where the       *)
(* fixed-point unit makes further terms vanish for |x| <= 1.5 rad.  The    *)
(* metres returned are those of the formula to within that resolution.     *)
(***************************************************************************)
\* Earth radius in metres
R == 6371000

Unit == 10 * 10 * 10 * 10

\* a / b truncated toward zero
Quot(a, b) == IF a < 0 THEN -((-a) \div b) ELSE a \div b

\* math.radians(x): x * pi / 180, x in tenths of a degree
radians(x) == Quot(x * 31416, 1800)

\* math.sin(x)
sin(x) ==
    LET x2 == Quot(x * x, Unit)
        x3 == Quot(x2 * x, Unit)
        x5 == Quot(x3 * x2, Unit)
    IN  x - Quot(x3, 6) + Quot(x5, 120)

\* math.cos(x)
cos(x) ==
    LET x2 == Quot(x * x, Unit)
        x4 == Quot(x2 * x2, Unit)
        x6 == Quot(x4 * x2, Unit)
    IN  Unit - Quot(x2, 2) + Quot(x4, 24) - Quot(x6, 720)

\* the largest r with r * r <= n
RECURSIVE isqrt_between(_, _, _)
isqrt_between(n, lo, hi) ==
    IF lo >= hi THEN lo
    ELSE LET mid == (lo + hi + 1) \div 2
         IN  IF mid * mid <= n THEN isqrt_between(n, mid, hi)
             ELSE isqrt_between(n, lo, mid - 1)

\* math.sqrt(a), a in units of 1/10^8, the root in units of 1/10000
sqrt(a) == isqrt_between(a, 0, Unit)

\* atan(t) for 0 <= t <= 1
atan_unit(t) ==
    LET t2 == Quot(t * t, Unit)
        t3 == Quot(t2 * t, Unit)
        t5 == Quot(t3 * t2, Unit)
        t7 == Quot(t5 * t2, Unit)
    IN  t - Quot(t3, 3) + Quot(t5, 5) - Quot(t7, 7)

\* math.atan2(y, x) for y >= 0, x >= 0 (both are square roots here)
atan2(y, x) ==
    IF y <= x
    THEN (IF x = 0 THEN 0 ELSE atan_unit(Quot(y * Unit, x)))
    ELSE 15708 - atan_unit(Quot(x * Unit, y))

\* the distance in tenths of a metre
haversine_distance(lat1, lon1, lat2, lon2) ==
    LET lat1_rad == radians(lat1)
        lon1_rad == radians(lon1)
        lat2_rad == radians(lat2)
        lon2_rad == radians(lon2)
        dlat == lat2_rad - lat1_rad
        dlon == lon2_rad - lon1_rad
        sdlat == sin(Quot(dlat, 2))
        sdlon == sin(Quot(dlon, 2))
        a == sdlat * sdlat
             + Quot(Quot(cos(lat1_rad) * cos(lat2_rad), Unit) * Abs(sdlon), Unit)
               * Abs(sdlon)
        c == 2 * atan2(sqrt(a), sqrt(Unit * Unit - a))
    IN  (R \div 1000) * c

(***************************************************************************)
(* Tables (pandas.DataFrame): [columns, rows]; a row maps each column to a *)
(* cell, <<>> for None / NaN and <<v>> for the float v.  The index of a    *)
(* row is its position, counted from 0.                                    *)
(***************************************************************************)
NoTable == [absent |-> TRUE]

Null == <<>>

\* pd.DataFrame()
EmptyDataFrame == [columns |-> <<>>, rows |-> <<>>]

RouteColumns == <<"latitude", "longitude", "length", "latitude mid", "longitude mid">>

\* pd.notna(cell)
notna(cell) == cell # Null

(***************************************************************************)
(* The row loop of kml_to_csv (app.py 125-152) and of kml_to_multi_excel   *)
(* (app.py 168-195)                                                        *)
(***************************************************************************)
\* faulty variant: the last two rows are left without a segment
has_next_short(coords, i) == i < Len(coords) - 1

\* if i < len(coordinates) - 1, for the 1-based i
has_next(coords, i) == i < Len(coords)

\* the point the segment of row i ends in: coordinates[i + 1]
next_point(coords, i) == coords[i + 1]

route_row(coords, i) ==
    LET lat == coords[i][1]
        lon == coords[i][2]
        nxt == next_point(coords, i)
    IN  IF has_next(coords, i)
        THEN ("latitude" :> <<lat>>) @@ ("longitude" :> <<lon>>)
             @@ ("length" :> <<10 * round(haversine_distance(lat, lon, nxt[1], nxt[2]), 10)>>)
             @@ ("latitude mid" :> <<round(lat + nxt[1], 2)>>)
             @@ ("longitude mid" :> <<round(lon + nxt[2], 2)>>)
        ELSE ("latitude" :> <<lat>>) @@ ("longitude" :> <<lon>>)
             @@ ("length" :> Null)
             @@ ("latitude mid" :> Null)
             @@ ("longitude mid" :> Null)

\* pd.DataFrame(data) of the rows built from a non-empty sequence
route_table(coords) ==
    [columns |-> RouteColumns,
     rows |-> [i \in 1..Len(coords) |-> route_row(coords, i)]]

\* kml_to_csv, given what parse_kml_coordinates returned
kml_to_csv(coords) ==
    IF coords = <<>> THEN EmptyDataFrame ELSE route_table(coords)

\* kml_to_multi_excel, given what parse_kml_multi_routes returned: the
\* sheets in the order of the dict (None, here <<>>, for no routes)
kml_to_multi_excel(rts) ==
    [i \in 1..Len(rts) |-> <<rts[i][1], route_table(rts[i][2])>>]

(***************************************************************************)
(* csv_to_kml (app.py 202-296)                                             *)
(***************************************************************************)
\* the columns the test of line 273 reads, in the order it reads them
TestedColumns == <<"length", "latitude", "longitude">>

HasColumn(table, col) == \E i \in 1..Len(table.columns) : table.columns[i] = col

\* pd.notna(row['length']) and pd.notna(row['latitude']) and
\* pd.notna(row['longitude']): "emit" when all hold, "skip" at the first
\* null (the columns after it are not read), "KeyError" when a column that
\* is read is not in the table
RECURSIVE row_test(_, _, _)
row_test(table, row, cols) ==
    IF cols = <<>> THEN "emit"
    ELSE IF ~HasColumn(table, Head(cols)) THEN "KeyError"
    ELSE IF ~notna(row[Head(cols)]) THEN "skip"
    ELSE row_test(table, row, Tail(cols))

StartStyle == <<"#","m","_","y","l","w","-","p","u","s","h","p","i","n","0">>

OtherStyle == <<"#","m","_","y","l","w","-","p","u","s","h","p","i","n">>

\* faulty variant: the first placemark written gets the start style
style_ref_first_emitted(index, emitted_before) ==
    IF emitted_before = 0 THEN StartStyle ELSE OtherStyle

\* "#m_ylw-pushpin0" if index == 0 else "#m_ylw-pushpin"
style_ref(index, emitted_before) == IF index = 0 THEN StartStyle ELSE OtherStyle

\* faulty variant: latitude before longitude
point_text_latlon(row) ==
    FloatStr(row["latitude"][1]) \o <<",">> \o FloatStr(row["longitude"][1])
        \o <<",", "0">>

\* f"{row['longitude']},{row['latitude']},0"
point_text(row) ==
    FloatStr(row["longitude"][1]) \o <<",">> \o FloatStr(row["latitude"][1])
        \o <<",", "0">>

\* f"{int(row['length'])}"
name_text(row) == IntStr(int(row["length"][1]))

placemark_of(index, emitted_before, row) ==
    Elem("kml:Placemark", <<>>,
         << Elem("kml:name", name_text(row), <<>>),
            Elem("kml:LookAt", <<>>,
                 << Elem("kml:longitude", FloatStr(row["longitude"][1]), <<>>),
                    Elem("kml:latitude", FloatStr(row["latitude"][1]), <<>>),
                    Elem("kml:altitude", <<"0">>, <<>>),
                    Elem("gx:altitudeMode", <<>>, <<>>) >>),
            Elem("kml:styleUrl", style_ref(index, emitted_before), <<>>),
            Elem("kml:Point", <<>>,
                 << Elem("gx:drawOrder", <<"1">>, <<>>),
                    Elem("kml:coordinates", point_text(row), <<>>) >>) >>)

\* for index, row in df.iterrows(): the placemarks, or KeyError
RECURSIVE placemarks_loop(_, _, _)
placemarks_loop(table, i, acc) ==
    IF i > Len(table.rows) THEN [raised |-> "", value |-> acc]
    ELSE LET test == row_test(table, table.rows[i], TestedColumns)
         IN  IF test = "KeyError" THEN [raised |-> "KeyError", value |-> <<>>]
             ELSE IF test = "emit"
                  THEN placemarks_loop(table, i + 1,
                           Append(acc, placemark_of(i - 1, Len(acc), table.rows[i])))
                  ELSE placemarks_loop(table, i + 1, acc)

StrLength == <<"l","e","n","g","t","h">>

\* kml_template.format(placemarks=...), as ElementTree reads it back; the
\* StyleMap and Style blocks are fixed text without data
kml_template(placemarks) ==
    [wellformed |-> TRUE,
     root |-> Elem("kml:kml", <<>>,
        << Elem("kml:Document", <<>>,
             << Elem("kml:name", StrLength \o <<".", "k", "m", "l">>, <<>>),
                Elem("kml:StyleMap", <<>>, <<>>),
                Elem("kml:StyleMap", <<>>, <<>>),
                Elem("kml:Style", <<>>, <<>>),
                Elem("kml:Style", <<>>, <<>>),
                Elem("kml:Style", <<>>, <<>>),
                Elem("kml:Style", <<>>, <<>>),
                Elem("kml:Folder", <<>>,
                     <<Elem("kml:name", StrLength, <<>>)>> \o placemarks
                        \o <<Elem("atom:link", <<>>, <<>>)>>) >>) >>)]

csv_to_kml(table) ==
    LET r == placemarks_loop(table, 1, <<>>)
    IN  IF r.raised # "" THEN r
        ELSE [raised |-> "", value |-> kml_template(r.value)]

\* required_columns of main
required_columns == <<"length", "latitude", "longitude">>

\* faulty variant: only the first missing column is named
missing_columns_first(table) ==
    First(SelectSeq(required_columns, LAMBDA col : ~HasColumn(table, col)))

\* [col for col in required_columns if col not in df.columns]
missing_columns(table) ==
    SelectSeq(required_columns, LAMBDA col : ~HasColumn(table, col))

(***************************************************************************)
(* Operations                                                              *)
(***************************************************************************)
ParseSingle ==
    /\ last = "init"
    /\ kml_content # NoDoc
    /\ LET r == parse_kml_coordinates(kml_content)
       IN  /\ coordinates' = r.value
           /\ st_error' = report(st_error, "parse_kml_coordinates", r)
    /\ last' = "parse_kml_coordinates"
    /\ UNCHANGED <<kml_content, df, routes, sheets, raised, written_from>>

ParseRoutes ==
    /\ last = "init"
    /\ kml_content # NoDoc
    /\ LET r == parse_kml_multi_routes(kml_content)
       IN  /\ routes' = r.value
           /\ st_error' = report(st_error, "parse_kml_multi_routes", r)
    /\ last' = "parse_kml_multi_routes"
    /\ UNCHANGED <<kml_content, df, coordinates, sheets, raised, written_from>>

\* kml_to_csv(kml_content), called on a document
KmlToCsv ==
    /\ last \in {"init", "csv_to_kml"}
    /\ kml_content # NoDoc
    /\ raised = ""
    /\ LET r == parse_kml_coordinates(kml_content)
       IN  /\ coordinates' = r.value
           /\ st_error' = report(st_error, "parse_kml_coordinates", r)
           /\ df' = kml_to_csv(r.value)
    /\ last' = "kml_to_csv"
    /\ UNCHANGED <<kml_content, routes, sheets, raised, written_from>>

\* kml_to_multi_excel(kml_content), called on a document
KmlToMultiExcel ==
    /\ last = "init"
    /\ kml_content # NoDoc
    /\ LET r == parse_kml_multi_routes(kml_content)
       IN  /\ routes' = r.value
           /\ st_error' = report(st_error, "parse_kml_multi_routes", r)
           /\ sheets' = kml_to_multi_excel(r.value)
    /\ last' = "kml_to_multi_excel"
    /\ UNCHANGED <<kml_content, df, coordinates, raised, written_from>>

\* csv_to_kml(df), called on a table: the document, or the KeyError it lets
\* propagate
CsvToKml ==
    /\ last \in {"init", "kml_to_csv"}
    /\ df # NoTable
    /\ LET r == csv_to_kml(df)
       IN  /\ raised' = r.raised
           /\ kml_content' = IF r.raised = "" THEN r.value ELSE kml_content
           /\ written_from' = IF r.raised = "" THEN df ELSE written_from
    /\ last' = "csv_to_kml"
    /\ UNCHANGED <<df, coordinates, routes, sheets, st_error>>

\* main, "KML ke CSV/Excel", from the decoded upload on (app.py 330-446)
MainKml ==
    /\ last = "init"
    /\ kml_content # NoDoc
    /\ LET r  == parse_kml_multi_routes(kml_content)
           e1 == report(st_error, "parse_kml_multi_routes", r)
           is_multi_route == Len(r.value) > 1
           c  == parse_kml_coordinates(kml_content)
           e2 == report(e1, "parse_kml_coordinates", c)
       IN  /\ routes' = r.value
           /\ IF is_multi_route
              THEN /\ sheets' = kml_to_multi_excel(r.value)
                   /\ st_error' = e1
                   /\ UNCHANGED <<df, coordinates>>
              ELSE /\ coordinates' = c.value
                   /\ df' = kml_to_csv(c.value)
                   /\ st_error' =
                        IF kml_to_csv(c.value).rows = <<>>
                        THEN Append(e2, [where |-> "main", exception |-> "NoCoordinates"])
                        ELSE e2
                   /\ UNCHANGED sheets
    /\ last' = "main_kml"
    /\ UNCHANGED <<kml_content, raised, written_from>>

\* main, "CSV/Excel ke KML", from the table read on (app.py 495-524)
MainCsv ==
    /\ last = "init"
    /\ df # NoTable
    /\ LET missing == missing_columns(df)
       IN  IF missing # <<>>
           THEN /\ st_error' = Append(st_error,
                                      [where |-> "main", missing_columns |-> missing])
                /\ UNCHANGED <<kml_content, written_from>>
           ELSE /\ kml_content' = csv_to_kml(df).value
                /\ written_from' = df
                /\ UNCHANGED st_error
    /\ last' = "main_csv"
    /\ UNCHANGED <<df, coordinates, routes, sheets, raised>>

(***************************************************************************)
(* Inputs: one <coordinates> text                                          *)
(***************************************************************************)
\* kml > Document > Placemark(name) > LineString > coordinates(text)
Str_R == <<"R">>

LineStringOf(text) ==
    Elem("kml:LineString", <<>>, <<Elem("kml:coordinates", text, <<>>)>>)

NameOf(text) == Elem("kml:name", text, <<>>)

KmlOf(items) ==
    [wellformed |-> TRUE,
     root |-> Elem("kml:kml", <<>>, <<Elem("kml:Document", <<>>, items)>>)]

TrackDoc(text) ==
    KmlOf(<<Elem("kml:Placemark", <<>>, <<NameOf(Str_R), LineStringOf(text)>>)>>)

TokSet == { <<"1", ".", "5">>, <<"-", "2">>, <<"x">>, <<".">> }

SepSet == { <<",">>, <<" ", "\n">> }

RECURSIVE Join(_, _)
Join(toks, sep) ==
    IF Len(toks) = 1 THEN toks[1]
    ELSE toks[1] \o sep \o Join(Tail(toks), sep)

GenTexts ==
    { Join(toks, sep) :
        toks \in UNION { [1..n -> TokSet] : n \in 1..MaxTokens }, sep \in SepSet }

\* "10,20,0 11,21,0 badtoken 12,22,0"
BadTokenText ==
    <<"1","0",",","2","0",",","0"," ","1","1",",","2","1",",","0"," ",
      "b","a","d","t","o","k","e","n"," ","1","2",",","2","2",",","0">>

FixedTexts ==
    { BadTokenText,
      <<" ", " ">>,                                          \* blank
      <<"\n", "3", ",", "4", ",", "0", "\n">>,               \* needs strip()
      <<",", "3", ",", "4", ",", "0">>,                      \* leading separator
      <<"3", ".", "2", "5", ",", "+", "4", ".", ",", "x">>,  \* rounding, sign
      <<"3", ",", "4">>,                                     \* no altitude
      \* a bad group, a good one with a bad altitude, an incomplete one
      <<"x", ",", "1", ",", "0", " ", "3", ",", "4", ",", "y", " ", "5">> }

TokTexts == GenTexts \cup FixedTexts

InitTok ==
    /\ kml_content \in { TrackDoc(t) : t \in TokTexts }
    /\ df = NoTable
    /\ coordinates = <<>>
    /\ routes = <<>>
    /\ sheets = <<>>
    /\ st_error = <<>>
    /\ raised = ""
    /\ last = "init"
    /\ written_from = NoTable

NextTok == ParseSingle \/ ParseRoutes

SpecTok == InitTok /\ [][NextTok]_vars


(***************************************************************************)
(* Inputs: KML documents                                                   *)
(***************************************************************************)
TrailA == <<"T","r","a","i","l"," ","A">>

TrailB1 == <<"T","r","a","i","l","/","B",":","1">>

\* a name that differs from TrailB1 and cleans to the same key
TrailB1Clean == <<"T","r","a","i","l","_","B","_","1">>

\* 33 characters, an invalid one among the first 31 and one after them
LongName == [i \in 1..29 |-> "n"] \o <<"/", "x", ":", "y">>

TxtOne == <<"1","2",",","2","2",",","0">>

TxtTwo == <<"1","0",",","2","0",",","0"," ","1","1",",","2","1",",","0">>

TxtThree == <<"\n">> \o <<"1",".","5",",","-","2",",","0"," ","3",",","4",",","0",",","5",",","6",".","5",",","0">> \o <<"\n">>

TxtBad == <<"x",",","1",",","0">>

TxtBlank == <<" ">>

Track(name, text) ==
    Elem("kml:Placemark", <<>>, <<NameOf(name), LineStringOf(text)>>)

Items ==
    { Track(TrailA, TxtTwo),
      Track(TrailB1, TxtThree),
      Track(TrailB1Clean, TxtOne),
      Track(LongName, TxtOne),
      \* no <name>
      Elem("kml:Placemark", <<>>, <<LineStringOf(TxtTwo)>>),
      \* <name/>
      Track(<<>>, TxtOne),
      \* <coordinates/>
      Track(TrailA, <<>>),
      Track(TrailA, TxtBad),
      \* a Point placemark
      Elem("kml:Placemark", <<>>,
           <<NameOf(TrailA),
             Elem("kml:Point", <<>>, <<Elem("kml:coordinates", TxtOne, <<>>)>>)>>),
      \* a LineString without <coordinates>
      Elem("kml:Placemark", <<>>,
           <<NameOf(TrailA), Elem("kml:LineString", <<>>, <<>>)>>),
      \* a placemark inside a Folder, its LineString inside a MultiGeometry
      Elem("kml:Folder", <<>>,
           <<Elem("kml:Placemark", <<>>,
                  <<NameOf(TrailA),
                    Elem("kml:MultiGeometry", <<>>, <<LineStringOf(TxtOne)>>)>>)>>),
      \* bare <coordinates>
      Elem("kml:coordinates", TxtTwo, <<>>),
      Elem("kml:coordinates", <<>>, <<>>),
      Elem("kml:coordinates", TxtBlank, <<>>),
      \* <coordinates> of another namespace
      Elem("gx:coordinates", TxtOne, <<>>) }

\* text that is not well-formed XML: ET.fromstring raises ParseError
MalformedDoc == [wellformed |-> FALSE, root |-> Elem("", <<>>, <<>>)]

Docs ==
    { KmlOf(items) : items \in UNION { [1..n -> Items] : n \in 0..MaxItems } }
        \cup {MalformedDoc}

Init ==
    /\ kml_content \in Docs
    /\ df = NoTable
    /\ coordinates = <<>>
    /\ routes = <<>>
    /\ sheets = <<>>
    /\ st_error = <<>>
    /\ raised = ""
    /\ last = "init"
    /\ written_from = NoTable

Next ==
    \/ ParseSingle
    \/ ParseRoutes
    \/ KmlToCsv
    \/ KmlToMultiExcel
    \/ MainKml
    \/ CsvToKml

Spec == Init /\ [][Next]_vars

(***************************************************************************)
(* Inputs: tables                                                          *)
(***************************************************************************)
\* the cells a column may hold: null, and 12.7 and -1.5 for a length, 1.5
\* for a latitude, -2.0 for a longitude
CellsOf(col) ==
    IF col = "length" THEN { Null, <<127>>, <<-15>> }
    ELSE IF col = "latitude" THEN { Null, <<15>> }
    ELSE { Null, <<-20>> }

ColumnOrder == <<"latitude", "longitude", "length">>

ColumnsOf(S) == SelectSeq(ColumnOrder, LAMBDA col : col \in S)

RowsOver(S) ==
    { row \in [S -> UNION { CellsOf(col) : col \in S }] :
        \A col \in S : row[col] \in CellsOf(col) }

TablesOver(S) ==
    { [columns |-> ColumnsOf(S), rows |-> rows] :
        rows \in UNION { [1..n -> RowsOver(S)] : n \in 0..MaxRows } }

Tables == UNION { TablesOver(S) : S \in SUBSET {"latitude", "longitude", "length"} }

InitTab ==
    /\ kml_content = NoDoc
    /\ df \in Tables
    /\ coordinates = <<>>
    /\ routes = <<>>
    /\ sheets = <<>>
    /\ st_error = <<>>
    /\ raised = ""
    /\ last = "init"
    /\ written_from = NoTable

NextTab == CsvToKml \/ MainCsv

SpecTab == InitTab /\ [][NextTab]_vars

(***************************************************************************)
(* Claims                                                                  *)
(***************************************************************************)
\* the points one <coordinates> element stands for; an element without
\* text stands for none
PointsOfElem(elem) ==
    IF elem.text = <<>> THEN <<>> ELSE parse_triples(re_split(strip(elem.text)))

\* C1: for every well-formed document, parse_kml_coordinates returns the
\* concatenation, in document order, of the points of each <coordinates>
\* element of the KML namespace; an element without text contributes none
\* and takes nothing away from the others.
C1_AllCoordinatesConcatenated ==
    (last = "parse_kml_coordinates" /\ kml_content.wellformed)
        => LET elems == findall(kml_content.root, "kml:coordinates")
           IN  coordinates = Flatten([i \in 1..Len(elems) |-> PointsOfElem(elems[i])])

\* the text of the one <coordinates> element of a one-track document, and
\* what either parser returned for it
TrackText == findall(kml_content.root, "kml:coordinates")[1].text

TrackPoints ==
    IF last = "parse_kml_coordinates" THEN coordinates
    ELSE IF routes = <<>> THEN <<>> ELSE routes[1][2]

Parsed == last \in {"parse_kml_coordinates", "parse_kml_multi_routes"}

\* C2: the text "10,20,0 11,21,0 badtoken 12,22,0" yields exactly the three
\* points (lat, lon) = (20,10), (21,11), (22,12), in that order.
C2_BadTokenYieldsThreePoints ==
    (Parsed /\ TrackText = BadTokenText)
        => TrackPoints = << <<200, 100>>, <<210, 110>>, <<220, 120>> >>

\* the complete groups k = 0, 1, ... of a token list whose longitude and
\* latitude tokens are numeric
GoodGroups(t) ==
    { k \in 0..Len(t) :
        /\ 3 * k + 3 <= Len(t)
        /\ IsFloat(t[3 * k + 1])
        /\ IsFloat(t[3 * k + 2]) }

\* the j-th smallest member of a set of numbers
Nth(K, j) == CHOOSE k \in K : Cardinality({k2 \in K : k2 < k}) = j - 1

\* C3: the tokens t of a <coordinates> text are consumed in groups of three
\* from the start: the points are (lat = t[3k+1], lon = t[3k]) for exactly
\* the complete groups k with numeric t[3k] and t[3k+1], in increasing k,
\* whatever the altitude token is; so there are at most floor(len(t)/3).
C3_TriplesInFixedGroups ==
    Parsed
        => LET t == re_split(strip(TrackText))
               K == GoodGroups(t)
           IN  /\ st_error = <<>>
               /\ Len(TrackPoints) = Cardinality(K)
               /\ Len(TrackPoints) <= Len(t) \div 3
               /\ \A j \in 1..Len(TrackPoints) :
                     TrackPoints[j] = << float(t[3 * Nth(K, j) + 2]),
                                         float(t[3 * Nth(K, j) + 1]) >>

\* C3 witness: a malformed group, a later well-formed group whose altitude
\* token is not numeric, and a trailing incomplete group
C3_Witness ==
    /\ Parsed
    /\ LET t == re_split(strip(TrackText))
           K == GoodGroups(t)
       IN  /\ Len(t) % 3 # 0
           /\ \E k \in K : \E m \in 0..(k - 1) : m \notin K
           /\ \E k \in K : ~IsFloat(t[3 * k + 3])
           /\ Len(TrackPoints) = Cardinality(K)

\* the placemarks parse_kml_multi_routes is to take a route from: those with
\* a LineString whose <coordinates> yields at least one point
Placemarks == findall(kml_content.root, "kml:Placemark")

HasRoute(placemark) ==
    /\ coord_elem_of(placemark) # <<>>
    /\ PointsOfElem(coord_elem_of(placemark)[1]) # <<>>

\* the key of a placemark: its name, "Unnamed Route" without
\* a <name> child, cleaned
KeyOf(placemark) == clean_name_of(route_name_of(placemark))

NamesHaveText ==
    \A i \in 1..Len(Placemarks) :
        find(Placemarks[i], "kml:name") # <<>>
            => find(Placemarks[i], "kml:name")[1].text # <<>>

\* C4: for every well-formed document (whose <name> elements have text) the
\* RouteSet's entries come exactly from the placemarks with a LineString
\* whose <coordinates> yields a point; a placemark without one, or with
\* none (an empty <coordinates> included), is skipped and does not affect
\* the routes of the others.
C4_RoutesExactlyFromLineStrings ==
    (last = "parse_kml_multi_routes" /\ kml_content.wellformed /\ NamesHaveText)
        => /\ dict_keys(routes)
                = { KeyOf(Placemarks[i]) :
                      i \in { j \in 1..Len(Placemarks) : HasRoute(Placemarks[j]) } }
           /\ \A r \in 1..Len(routes) :
                 \E i \in 1..Len(Placemarks) :
                     /\ HasRoute(Placemarks[i])
                     /\ routes[r][1] = KeyOf(Placemarks[i])
                     /\ routes[r][2] = PointsOfElem(coord_elem_of(Placemarks[i])[1])

\* key is name with every invalid character replaced by "_", cut to 31
IsCleaned(key, name) ==
    /\ Len(key) = IF Len(name) > 31 THEN 31 ELSE Len(name)
    /\ \A i \in 1..Len(key) :
          key[i] = IF name[i] \in {"\\", "/", "*", "?", ":", "[", "]", "<", ">", "|"}
                   THEN "_" ELSE name[i]

TrailsDoc == KmlOf(<<Track(TrailA, TxtTwo), Track(TrailB1, TxtThree)>>)

\* C5: every key of the RouteSet is a placemark's name with each of
\* \ / * ? : [ ] < > | replaced by "_" and then cut to its first 31
\* characters, mapped to that placemark's points; so it is at most 31 long
\* and holds none of those characters.  Placemarks "Trail A" and
\* "Trail/B:1" give the keys "Trail A" and "Trail_B_1", each with its own
\* points.
C5_KeysCleanedAndCut ==
    (last = "parse_kml_multi_routes")
        => /\ \A r \in 1..Len(routes) :
                 /\ Len(routes[r][1]) <= 31
                 /\ \A i \in 1..Len(routes[r][1]) :
                       routes[r][1][i] \notin
                           {"\\", "/", "*", "?", ":", "[", "]", "<", ">", "|"}
                 /\ \E i \in 1..Len(Placemarks) :
                       /\ route_name_of(Placemarks[i]) # <<>>
                       /\ IsCleaned(routes[r][1], route_name_of(Placemarks[i]))
                       /\ HasRoute(Placemarks[i])
                       /\ routes[r][2] = PointsOfElem(coord_elem_of(Placemarks[i])[1])
           /\ \A r1, r2 \in 1..Len(routes) : routes[r1][1] = routes[r2][1] => r1 = r2
           /\ kml_content = TrailsDoc
                 => routes = << <<TrailA, << <<200, 100>>, <<210, 110>> >> >>,
                                << <<"T","r","a","i","l","_","B","_","1">>,
                                   << <<-20, 15>>, <<40, 30>>, <<65, 50>> >> >> >>

\* C5 witness: a name of 33 characters was cleaned and cut to a key of 31,
\* next to a second route
C5_Witness ==
    /\ last = "parse_kml_multi_routes"
    /\ Len(routes) = 2
    /\ \E r \in 1..2 :
          /\ Len(routes[r][1]) = 31
          /\ routes[r][1][30] = "_"
          /\ \E i \in 1..Len(Placemarks) :
                /\ Len(route_name_of(Placemarks[i])) = 33
                /\ IsCleaned(routes[r][1], route_name_of(Placemarks[i]))

\* table is the route table of the sequence seq: a row per point, in order,
\* with the point's latitude and longitude; the last row without length and
\* midpoint, every other row with those of the pair (point i, point i+1)
IsRouteTable(seq, table) ==
    /\ Len(table.rows) = Len(seq)
    /\ \A i \in 1..Len(seq) :
          LET row == table.rows[i]
          IN  /\ row["latitude"] = <<seq[i][1]>>
              /\ row["longitude"] = <<seq[i][2]>>
              /\ IF i = Len(seq)
                 THEN /\ row["length"] = Null
                      /\ row["latitude mid"] = Null
                      /\ row["longitude mid"] = Null
                 ELSE /\ row["length"] =
                           << 10 * round(haversine_distance(seq[i][1], seq[i][2],
                                                            seq[i + 1][1], seq[i + 1][2]),
                                         10) >>
                      /\ row["latitude mid"] = <<round(seq[i][1] + seq[i + 1][1], 2)>>
                      /\ row["longitude mid"] = <<round(seq[i][2] + seq[i + 1][2], 2)>>

\* C6: the table built from a coordinate sequence of length n (by kml_to_csv,
\* and each sheet of kml_to_multi_excel) has exactly n rows in sequence
\* order, row i with the latitude and longitude of point i; the last row has
\* length and both midpoints absent, every other row has all three, computed
\* from the pair (point i, point i+1); an empty sequence gives an empty table.
C6_RouteTableRows ==
    /\ (last \in {"kml_to_csv", "main_kml"} /\ df # NoTable)
          => /\ IsRouteTable(coordinates, df)
             /\ coordinates = <<>> => df.rows = <<>>
    /\ last \in {"kml_to_multi_excel", "main_kml"}
          => /\ Len(sheets) \in {0, Len(routes)}
             /\ last = "kml_to_multi_excel" => Len(sheets) = Len(routes)
             /\ \A j \in 1..Len(sheets) :
                   /\ sheets[j][1] = routes[j][1]
                   /\ IsRouteTable(routes[j][2], sheets[j][2])

\* C6 witness: a table of at least three rows was built, the first with a
\* length, the last without
C6_Witness ==
    /\ last = "kml_to_csv"
    /\ Len(coordinates) >= 3
    /\ Len(df.rows) = Len(coordinates)
    /\ df.rows[1]["length"] # Null
    /\ df.rows[Len(df.rows)]["length"] = Null

\* the table has the three columns csv_to_kml reads
HasRequired(table) ==
    \A col \in {"length", "latitude", "longitude"} :
        \E i \in 1..Len(table.columns) : table.columns[i] = col

\* the positions (from 1) of the rows with no null among the three
EmittedRows(table) ==
    { i \in 1..Len(table.rows) :
        /\ table.rows[i]["length"] # <<>>
        /\ table.rows[i]["latitude"] # <<>>
        /\ table.rows[i]["longitude"] # <<>> }

Folders == findall(kml_content.root, "kml:Folder")

FolderPlacemarks == SelectSeq(Folders[1].children, LAMBDA x : x.tag = "kml:Placemark")

ChildText(elem, tag) == find(elem, tag)[1].text

Written == last \in {"csv_to_kml", "main_csv"} /\ HasRequired(df)

\* C7: for every table with the columns length, latitude, longitude,
\* csv_to_kml returns a document with exactly one Folder, holding exactly
\* one Placemark per row with none of the three null, in table order, and
\* none for any other row; the placemark's name is int(length) and its Point
\* coordinates are "longitude,latitude,0".
C7_OnePlacemarkPerCompleteRow ==
    Written
        => /\ raised = ""
           /\ kml_content # NoDoc
           /\ Len(Folders) = 1
           /\ findall(kml_content.root, "kml:Placemark") = FolderPlacemarks
           /\ Len(FolderPlacemarks) = Cardinality(EmittedRows(df))
           /\ \A k \in 1..Len(FolderPlacemarks) :
                 LET row   == df.rows[Nth(EmittedRows(df), k)]
                     text  == ChildText(find(FolderPlacemarks[k], "kml:Point")[1],
                                        "kml:coordinates")
                     parts == re_split(text)
                 IN  /\ ChildText(FolderPlacemarks[k], "kml:name")
                           = IntStr(int(row["length"][1]))
                     /\ text = FloatStr(row["longitude"][1]) \o <<",">>
                                  \o FloatStr(row["latitude"][1]) \o <<",", "0">>
                     /\ Len(parts) = 3
                     /\ float(parts[1]) = row["longitude"][1]
                     /\ float(parts[2]) = row["latitude"][1]
                     /\ parts[3] = <<"0">>

\* C7 witness: of two rows with different cells the first was dropped for a
\* null and the second written, its length -1.5 named "-1"
C7_Witness ==
    /\ Written
    /\ kml_content # NoDoc
    /\ Len(df.rows) = 2
    /\ EmittedRows(df) = {2}
    /\ df.rows[2]["length"] = <<-15>>
    /\ df.rows[2]["latitude"] # df.rows[2]["longitude"]
    /\ Len(FolderPlacemarks) = 1
    /\ ChildText(FolderPlacemarks[1], "kml:name") = <<"-", "1">>

\* C8: a written placemark refers to the start style "#m_ylw-pushpin0"
\* exactly when it comes from the row of table index 0, and to
\* "#m_ylw-pushpin" otherwise; so at most one placemark has the start style,
\* and none has it when row 0 was dropped.
C8_StartStyleOnlyForIndexZero ==
    (Written /\ kml_content # NoDoc)
        => /\ \A k \in 1..Len(FolderPlacemarks) :
                 ChildText(FolderPlacemarks[k], "kml:styleUrl")
                    = IF Nth(EmittedRows(df), k) = 1
                      THEN <<"#","m","_","y","l","w","-","p","u","s","h","p","i","n","0">>
                      ELSE <<"#","m","_","y","l","w","-","p","u","s","h","p","i","n">>
           /\ Cardinality({ k \in 1..Len(FolderPlacemarks) :
                              ChildText(FolderPlacemarks[k], "kml:styleUrl")[
                                  Len(ChildText(FolderPlacemarks[k], "kml:styleUrl"))] = "0" })
                 <= 1
           /\ 1 \notin EmittedRows(df)
                 => \A k \in 1..Len(FolderPlacemarks) :
                       ChildText(FolderPlacemarks[k], "kml:styleUrl")
                          = <<"#","m","_","y","l","w","-","p","u","s","h","p","i","n">>

\* C8 witness: row 0 was dropped and a later row written, with the other
\* style
C8_Witness ==
    /\ Written
    /\ kml_content # NoDoc
    /\ 1 \notin EmittedRows(df)
    /\ Len(FolderPlacemarks) >= 1
    /\ ChildText(FolderPlacemarks[1], "kml:styleUrl")
          = <<"#","m","_","y","l","w","-","p","u","s","h","p","i","n">>

\* the document at hand was written from the route table written_from and
\* df is the table rebuilt from it
RoundTripped == last = "kml_to_csv" /\ written_from # NoTable

\* {length as an integer (or none), latitude, longitude} of the given rows
Triples(table, idx) ==
    { << IF table.rows[i]["length"] = <<>> THEN <<>>
         ELSE <<int(table.rows[i]["length"][1])>>,
         table.rows[i]["latitude"], table.rows[i]["longitude"] >> : i \in idx }

\* C9 as stated: the table rebuilt from the KML written from a route table T
\* has the same set of {length, latitude, longitude} triples as the rows of T
\* that were written (taking either all rows of the rebuilt table or only
\* its rows without a null).
C9_RoundTripSameTriples ==
    RoundTripped
        => \/ Triples(df, 1..Len(df.rows))
                = Triples(written_from, EmittedRows(written_from))
           \/ Triples(df, EmittedRows(df))
                = Triples(written_from, EmittedRows(written_from))

\* C9 amended: the rebuilt table has one row per written row of T, in order,
\* with the same latitude and longitude; each row but the last has the same
\* length as the written row (as integers) and the same midpoints, and the
\* last rebuilt row has no length: the length of the last written row of T
\* does not survive the round trip.
C9_RoundTripAllButLastLength ==
    RoundTripped
        => LET E == EmittedRows(written_from)
           IN  /\ Len(df.rows) = Cardinality(E)
               /\ \A k \in 1..Len(df.rows) :
                     LET old == written_from.rows[Nth(E, k)]
                         new == df.rows[k]
                     IN  /\ new["latitude"] = old["latitude"]
                         /\ new["longitude"] = old["longitude"]
                         /\ old["length"] # <<>>
                         /\ IF k < Len(df.rows)
                            THEN /\ new["length"] # <<>>
                                 /\ int(new["length"][1]) = int(old["length"][1])
                                 /\ new["latitude mid"] = old["latitude mid"]
                                 /\ new["longitude mid"] = old["longitude mid"]
                            ELSE new["length"] = <<>>

\* C9 witness: a table of three rows, one with a fractional coordinate, was
\* written and read back as two rows
C9_Witness ==
    /\ RoundTripped
    /\ Len(written_from.rows) = 3
    /\ Len(df.rows) = 2
    /\ \E k \in 1..2 : df.rows[k]["longitude"][1] % 10 # 0
    /\ df.rows[1]["length"] = written_from.rows[1]["length"]
    /\ df.rows[2]["length"] = <<>>

ValidButEmpty(doc) ==
    /\ doc.wellformed
    /\ \A i \in 1..Len(findall(doc.root, "kml:coordinates")) :
          /\ findall(doc.root, "kml:coordinates")[i].text # <<>>
          /\ PointsOfElem(findall(doc.root, "kml:coordinates")[i]) = <<>>

\* C11: for input that is not well-formed XML, parse_kml_coordinates
\* returns an empty sequence and parse_kml_multi_routes an empty RouteSet,
\* no exception reaches the caller, and what the caller is handed differs
\* from what it is handed for a well-formed document with no usable
\* coordinates.
C11_MalformedToldApartFromEmpty ==
    /\ (last = "parse_kml_coordinates" /\ ~kml_content.wellformed)
          => /\ coordinates = <<>>
             /\ raised = ""
             /\ \A doc \in Docs :
                   ValidButEmpty(doc) => parse_kml_coordinates(doc).value # coordinates
    /\ (last = "parse_kml_multi_routes" /\ ~kml_content.wellformed)
          => /\ routes = <<>>
             /\ raised = ""
             /\ \A doc \in Docs :
                   ValidButEmpty(doc) => parse_kml_multi_routes(doc).value # routes

\* no <coordinates> element of the document lacks text
AllCoordinatesHaveText ==
    \A i \in 1..Len(findall(kml_content.root, "kml:coordinates")) :
        findall(kml_content.root, "kml:coordinates")[i].text # <<>>

\* C12: whenever the RouteSet main parses from a document has exactly one
\* route (so the document is handled as a single route), the one table
\* produced has exactly one row per coordinate of that route, in order, and
\* no row from anywhere else in the document.
C12_SingleTableIsTheRoute ==
    (last = "main_kml" /\ kml_content.wellformed /\ AllCoordinatesHaveText
                       /\ Len(routes) = 1)
        => /\ df # NoTable
           /\ Len(df.rows) = Len(routes[1][2])
           /\ \A i \in 1..Len(df.rows) :
                 /\ df.rows[i]["latitude"] = <<routes[1][2][i][1]>>
                 /\ df.rows[i]["longitude"] = <<routes[1][2][i][2]>>

====
